---- MODULE Spec2Model ----
(***************************************************************************)
(* Model of the probability calculator: the Hat class (a depletable list   *)
(* of coloured balls with draw-without-replacement) and the Monte-Carlo    *)
(* function experiment() built on it.                                      *)
(*                                                                         *)
(* Python objects live in a small heap so that aliasing is visible: the    *)
(* caller's Hat is object HatRef, copy.deepcopy allocates object CopyRef.  *)
(* A dict is modelled by the sequence of its (key, value) items in         *)
(* insertion order.  random.choice is a nondeterministic choice of index.  *)
(* A float quotient is modelled by the fraction in lowest terms.           *)
(*                                                                         *)
(* The budget ledger (Category) and the Square shape are separate programs *)
(* of the repository; each has its own variables and specification, and    *)
(* the actions of one program leave the variables of the others alone.     *)
(***************************************************************************)
EXTENDS Integers, Sequences, FiniteSets

\* ---------------------------------------------------------------- bounds
MaxCount == 2          \* largest per-colour quantity passed to Hat(...)
MaxNeed == 2           \* largest required amount in expected_balls
MaxDraw == 5           \* largest num_balls argument
MaxTrials == 2         \* largest num_experiments argument
MaxAmount == 2         \* largest amount passed to deposit, withdraw, transfer
MaxEntries == 3        \* no call is made once the ledgers hold this many entries
MaxSide == 30          \* largest side passed to Square and its setters

Colors == {"a", "b"}
Counts == 0..MaxCount
Needs == 0..MaxNeed
DrawSizes == (0 - 1)..MaxDraw
TrialCounts == 0..MaxTrials

\* dicts over the colours, as item sequences in insertion order (a before b)
DictsOver(vals) ==
    {<<>>}
    \cup {<<<<c, v>>>> : c \in Colors, v \in vals}
    \cup {<<<<"a", v>>, <<"b", w>>>> : v \in vals, w \in vals}

\* the keyword arguments of Hat(a=i, b=j), as items in call order
HatKwargs == {<<<<"a", i>>, <<"b", j>>>> : i \in Counts, j \in Counts}

\* the same with quantities below zero, which Python accepts as arguments
SignedCounts == (0 - 1)..MaxCount
SignedHatKwargs == {<<<<"a", i>>, <<"b", j>>>> : i \in SignedCounts, j \in SignedCounts}

\* ------------------------------------------------------------ heap
HatRef == 1
CopyRef == 2
NoObj == [contents |-> <<"none">>, original_contents |-> <<"none">>, aliased |-> FALSE]
NoDraw == [valid |-> FALSE, pre |-> <<>>, k |-> 0, result |-> <<>>, post |-> <<>>]
NoValue == <<0, 0>>

VARIABLES
    kwargs,             \* the keyword arguments the caller's Hat was built from
    raised,             \* exception raised by the latest Hat call ("none": it returned)
    heap,               \* object id -> Hat object (contents, original_contents;
                        \* aliased: both attributes name one list object)
    pc,                 \* "idle" | "loop" | "copied" | "drawn" | "done"
    expected_balls,     \* experiment(): parameter, item sequence
    num_balls_drawn,    \* experiment(): parameter
    num_experiments,    \* experiment(): parameter
    trial,              \* experiment(): iterations of the for loop completed
    count_success,      \* experiment(): local
    hat_copy,           \* experiment(): local, an object id (0 = unbound)
    drawn_balls,        \* experiment(): local
    meets_expectations, \* experiment(): local
    outcome,            \* "none" | "returned" | "ZeroDivisionError"
    probability,        \* value returned by experiment(), a reduced fraction
    pre_contents,       \* contents of the caller's hat when experiment() was called
    last_draw,          \* record of the latest draw() on the caller's hat
    prev_draw,          \* record of the draw() before that
    ledger,             \* category name -> Category.ledger, a list of entries
    budget_op,          \* the latest Category call: arguments, ledgers before, result
    nonneg,             \* every amount passed to a Category call so far was >= 0
    square,             \* the Square object: width, height, side
    square_op           \* the latest Square call and the value it was given

hat_vars == <<kwargs, raised, heap, pc, expected_balls, num_balls_drawn,
              num_experiments, trial, count_success, hat_copy, drawn_balls,
              meets_expectations, outcome, probability, pre_contents,
              last_draw, prev_draw>>

budget_vars == <<ledger, budget_op, nonneg>>

square_vars == <<square, square_op>>

vars == <<hat_vars, budget_vars, square_vars>>

\* -------------------------------------------------------- Hat.__init__
RECURSIVE Repeat(_, _)
Repeat(color, count) ==
    IF count <= 0 THEN <<>> ELSE <<color>> \o Repeat(color, count - 1)

RECURSIVE Expand(_, _)
Expand(kw, idx) ==
    IF idx > Len(kw) THEN <<>>
    ELSE Repeat(kw[idx][1], kw[idx][2]) \o Expand(kw, idx + 1)

\* variant: original_contents = self.contents, without the slice copy
HatInit_alias(kw) ==
    [contents |-> Expand(kw, 1), original_contents |-> Expand(kw, 1), aliased |-> TRUE]

\* variant: the snapshot is taken before the balls are appended
HatInit_early(kw) ==
    [contents |-> Expand(kw, 1), original_contents |-> <<>>, aliased |-> FALSE]

\* self.contents filled from kwargs; original_contents = self.contents[:] is a
\* second list with the same items
HatInit(kw) ==
    LET contents == Expand(kw, 1)
    IN  [contents |-> contents, original_contents |-> contents, aliased |-> FALSE]

\* the object after self.contents was changed in place (clear, remove)
WithContents(obj, new) ==
    [obj EXCEPT !.contents = new,
                !.original_contents = IF obj.aliased THEN new ELSE @]

\* ------------------------------------------------------------ Hat.draw
CountIn(s, x) == Cardinality({i \in DOMAIN s : s[i] = x})

FirstIndex(s, x) == CHOOSE i \in DOMAIN s : s[i] = x /\ \A j \in 1..(i - 1) : s[j] # x

\* variant: the chosen ball stays in the list
RemoveFirst_none(s, x) == s

\* variant: every occurrence of x is deleted
RemoveFirst_all(s, x) == SelectSeq(s, LAMBDA y : y # x)

\* list.remove(x): delete the first occurrence of x
RemoveFirst(s, x) ==
    LET p == FirstIndex(s, x)
    IN  SubSeq(s, 1, p - 1) \o SubSeq(s, p + 1, Len(s))

\* variant: the list is returned without being copied, then cleared
DrawAll_cleared(contents) == <<<<>>, <<>>>>

\* the over-draw branch: <<returned list, contents afterwards>>
DrawAll(contents) == <<contents, <<>>>>

\* the for loop: every <<extracted_balls, contents>> that r more iterations can give
RECURSIVE DrawLoop(_, _, _)
DrawLoop(contents, extracted_balls, r) ==
    IF r <= 0 THEN {<<extracted_balls, contents>>}
    ELSE UNION { DrawLoop(RemoveFirst(contents, contents[i]),
                          Append(extracted_balls, contents[i]), r - 1)
                 : i \in DOMAIN contents }

DrawOutcomes(contents, num_balls) ==
    IF num_balls >= Len(contents) THEN {DrawAll(contents)}
    ELSE DrawLoop(contents, <<>>, num_balls)

\* ---------------------------------------------------------- experiment
\* variant: hat_copy = hat, the same object under a second name
DeepCopyTarget_alias(ref) == ref

\* copy.deepcopy(ref) builds a new object; the id of the object it returns
DeepCopyTarget(ref) == CopyRef

RECURSIVE TallyLoop(_, _, _)
TallyLoop(drawn, idx, counts) ==
    IF idx > Len(drawn) THEN counts
    ELSE LET ball == drawn[idx]
             old == IF ball \in DOMAIN counts THEN counts[ball] ELSE 0
         IN  TallyLoop(drawn, idx + 1,
                       [c \in DOMAIN counts \cup {ball} |->
                            IF c = ball THEN old + 1 ELSE counts[c]])

EmptyDict == [c \in {} |-> 0]

Tally(drawn) == TallyLoop(drawn, 1, EmptyDict)

DictGet(d, key, default) == IF key \in DOMAIN d THEN d[key] ELSE default

RECURSIVE CheckLoop(_, _, _)
CheckLoop(items, counts, idx) ==
    IF idx > Len(items) THEN TRUE
    ELSE IF DictGet(counts, items[idx][1], 0) < items[idx][2] THEN FALSE
    ELSE CheckLoop(items, counts, idx + 1)

\* variant: the comparison is <= instead of <
MeetsExpectations_strict(items, drawn) ==
    \A idx \in DOMAIN items : ~(DictGet(Tally(drawn), items[idx][1], 0) <= items[idx][2])

\* variant: only colours that were drawn are compared
MeetsExpectations_drawnonly(items, drawn) ==
    \A idx \in DOMAIN items :
        items[idx][1] \in DOMAIN Tally(drawn) => Tally(drawn)[items[idx][1]] >= items[idx][2]

\* variant: the flag is reassigned for every colour and there is no break
MeetsExpectations_last(items, drawn) ==
    Len(items) = 0
    \/ DictGet(Tally(drawn), items[Len(items)][1], 0) >= items[Len(items)][2]

\* variant: the flag starts False and is set by the first colour that passes
MeetsExpectations_nonempty(items, drawn) ==
    Len(items) > 0 /\ CheckLoop(items, Tally(drawn), 1)

\* variant: the drawn amount must equal the expected amount
MeetsExpectations_exact(items, drawn) ==
    \A idx \in DOMAIN items : DictGet(Tally(drawn), items[idx][1], 0) = items[idx][2]

\* the verdict of one trial: tally, then the loop over expected_balls.items()
MeetsExpectations(items, drawn) == CheckLoop(items, Tally(drawn), 1)

RECURSIVE GCD(_, _)
GCD(m, n) == IF n = 0 THEN m ELSE GCD(n, m % n)

\* variant: the operands are swapped
Divide_swapped(m, n) == LET g == GCD(n, m) IN <<n \div g, m \div g>>

\* count_success / num_experiments as a fraction in lowest terms
Divide(m, n) == LET g == GCD(m, n) IN <<m \div g, n \div g>>

One == <<1, 1>>
Zero == <<0, 1>>

\* ------------------------------------------------------------ Category
Categories == {"Food", "Misc"}
Amounts == (0 - 1)..MaxAmount
NoDescription == <<"">>
NoCall == [name |-> "none", cat |-> "none", other |-> "none", amount |-> 0,
           pre |-> [c \in Categories |-> <<>>], ret |-> "None"]

\* Category(name): self.name = name, self.ledger = []
CategoryInit(name) == [name |-> name, ledger |-> <<>>]

\* deposit: the ledger with the entry appended
Deposit(l, amount, description) ==
    Append(l, [amount |-> amount, description |-> description])

RECURSIVE BalanceLoop(_, _, _)
BalanceLoop(l, idx, total_balance) ==
    IF idx > Len(l) THEN total_balance
    ELSE BalanceLoop(l, idx + 1, total_balance + l[idx].amount)

GetBalance(l) == BalanceLoop(l, 1, 0)

\* variant: the comparison is turned around
CheckFunds_reversed(l, amount) == amount >= GetBalance(l)

CheckFunds(l, amount) == amount <= GetBalance(l)

\* withdraw: <<ledger afterwards, returned value>>
Withdraw(l, amount, description) ==
    IF CheckFunds(l, amount)
    THEN <<Append(l, [amount |-> 0 - amount, description |-> description]), "True">>
    ELSE <<l, "False">>

\* variant: no check_funds guard around the withdrawal and the deposit
Transfer_unchecked(ls, self, other_category, amount) ==
    LET w == Withdraw(ls[self], amount, <<"Transfer to ", other_category>>)
        afterWithdraw == [ls EXCEPT ![self] = w[1]]
    IN  <<[afterWithdraw EXCEPT ![other_category] =
               Deposit(@, amount, <<"Transfer from ", self>>)], w[2]>>

\* transfer: <<all ledgers afterwards, returned value>>; other_category may be
\* the category itself
Transfer(ls, self, other_category, amount) ==
    IF CheckFunds(ls[self], amount)
    THEN LET w == Withdraw(ls[self], amount, <<"Transfer to ", other_category>>)
             afterWithdraw == [ls EXCEPT ![self] = w[1]]
         IN  <<[afterWithdraw EXCEPT ![other_category] =
                    Deposit(@, amount, <<"Transfer from ", self>>)], "True">>
    ELSE <<ls, "False">>

TotalEntries == Len(ledger["Food"]) + Len(ledger["Misc"])

\* -------------------------------------------------------------- Square
Sides == 1..MaxSide

\* Rectangle.__init__(side, side), then self.side = side
SquareInit(side) == [width |-> side, height |-> side, side |-> side]

SetSide(sq, side) == [sq EXCEPT !.side = side, !.width = side, !.height = side]

\* variant: Rectangle.set_width is not overridden
SetWidth_inherited(sq, width) == [sq EXCEPT !.width = width]

SetWidth(sq, width) == SetSide(sq, width)

SetHeight(sq, height) == SetSide(sq, height)

\* ----------------------------------------------------------------- Init
\* the state after hat = Hat(**kw), kw taken from the set inputs
HatInitWith(inputs) ==
    /\ \E kw \in inputs :
          /\ kwargs = kw
          /\ heap = [o \in {HatRef, CopyRef} |->
                        IF o = HatRef THEN HatInit(kw) ELSE NoObj]
    /\ raised = "none"
    /\ pc = "idle"
    /\ expected_balls = <<>>
    /\ num_balls_drawn = 0
    /\ num_experiments = 0
    /\ trial = 0
    /\ count_success = 0
    /\ hat_copy = 0
    /\ drawn_balls = <<>>
    /\ meets_expectations = FALSE
    /\ outcome = "none"
    /\ probability = NoValue
    /\ pre_contents = <<>>
    /\ last_draw = NoDraw
    /\ prev_draw = NoDraw

\* the state after food = Category("Food"); misc = Category("Misc")
BudgetInit ==
    /\ ledger = [c \in Categories |-> CategoryInit(c).ledger]
    /\ budget_op = NoCall
    /\ nonneg = TRUE

\* the state after sq = Square(side), side taken from the set inputs
SquareInitWith(inputs) ==
    \E side \in inputs :
        /\ square = SquareInit(side)
        /\ square_op = [name |-> "__init__", value |-> side]

Init == HatInitWith(HatKwargs) /\ BudgetInit /\ SquareInitWith({1})

InitHat == HatInitWith(SignedHatKwargs) /\ BudgetInit /\ SquareInitWith({1})

InitBudget == HatInitWith({<<<<"a", 0>>, <<"b", 0>>>>}) /\ BudgetInit /\ SquareInitWith({1})

InitSquare == HatInitWith({<<<<"a", 0>>, <<"b", 0>>>>}) /\ BudgetInit /\ SquareInitWith(Sides)

\* -------------------------------------------------------------- actions
\* the frame of experiment() when no call is active
NoFrame ==
    /\ expected_balls' = <<>>
    /\ num_balls_drawn' = 0
    /\ num_experiments' = 0
    /\ trial' = 0
    /\ count_success' = 0
    /\ hat_copy' = 0
    /\ drawn_balls' = <<>>
    /\ meets_expectations' = FALSE
    /\ pre_contents' = <<>>

\* hat.draw(num_balls) called by the client on its own hat, between calls of
\* experiment(); the call and its result are recorded
Draw(num_balls) ==
    /\ pc = "idle"
    /\ \E o \in DrawOutcomes(heap[HatRef].contents, num_balls) :
          /\ heap' = [heap EXCEPT ![HatRef] = WithContents(@, o[2])]
          /\ last_draw' = [valid |-> TRUE, pre |-> heap[HatRef].contents,
                           k |-> num_balls, result |-> o[1], post |-> o[2]]
    /\ prev_draw' = last_draw
    /\ raised' = "none"
    /\ outcome' = "none"
    /\ probability' = NoValue
    /\ UNCHANGED <<kwargs, pc, expected_balls, num_balls_drawn, num_experiments, trial,
                   count_success, hat_copy, drawn_balls, meets_expectations,
                   pre_contents>>
    /\ UNCHANGED <<budget_vars, square_vars>>

\* the same call where only its effect on the hat matters: the client draws
\* from its hat and will pass the hat to experiment()
DrawBefore(num_balls) ==
    /\ pc = "idle"
    /\ \E o \in DrawOutcomes(heap[HatRef].contents, num_balls) :
          heap' = [heap EXCEPT ![HatRef] = WithContents(@, o[2])]
    /\ raised' = "none"
    /\ outcome' = "none"
    /\ probability' = NoValue
    /\ UNCHANGED <<kwargs, pc, expected_balls, num_balls_drawn, num_experiments, trial,
                   count_success, hat_copy, drawn_balls, meets_expectations,
                   pre_contents, last_draw, prev_draw>>
    /\ UNCHANGED <<budget_vars, square_vars>>

\* experiment(hat, expected, k, n) is entered: count_success = 0
ExperimentCall(expected, k, n) ==
    /\ pc = "idle"
    /\ pc' = "loop"
    /\ expected_balls' = expected
    /\ num_balls_drawn' = k
    /\ num_experiments' = n
    /\ trial' = 0
    /\ count_success' = 0
    /\ pre_contents' = heap[HatRef].contents
    /\ outcome' = "none"
    /\ probability' = NoValue
    /\ UNCHANGED <<kwargs, raised, heap, hat_copy, drawn_balls,
                   meets_expectations, last_draw, prev_draw>>
    /\ UNCHANGED <<budget_vars, square_vars>>

\* hat_copy = copy.deepcopy(hat)
TrialCopy ==
    /\ pc = "loop"
    /\ trial < num_experiments
    /\ LET target == DeepCopyTarget(HatRef)
       IN  /\ heap' = [heap EXCEPT ![target] = heap[HatRef]]
           /\ hat_copy' = target
    /\ pc' = "copied"
    /\ UNCHANGED <<kwargs, raised, expected_balls, num_balls_drawn, num_experiments, trial,
                   count_success, drawn_balls, meets_expectations, outcome,
                   probability, pre_contents, last_draw, prev_draw>>
    /\ UNCHANGED <<budget_vars, square_vars>>

\* drawn_balls = hat_copy.draw(num_balls_drawn)
TrialDraw ==
    /\ pc = "copied"
    /\ \E o \in DrawOutcomes(heap[hat_copy].contents, num_balls_drawn) :
          /\ heap' = [heap EXCEPT ![hat_copy] = WithContents(@, o[2])]
          /\ drawn_balls' = o[1]
    /\ pc' = "drawn"
    /\ UNCHANGED <<kwargs, raised, expected_balls, num_balls_drawn, num_experiments, trial,
                   count_success, hat_copy, meets_expectations, outcome,
                   probability, pre_contents, last_draw, prev_draw>>
    /\ UNCHANGED <<budget_vars, square_vars>>

\* tally the drawn balls, compare with expected_balls, count the success
TrialScore ==
    /\ pc = "drawn"
    /\ LET ok == MeetsExpectations(expected_balls, drawn_balls)
       IN  /\ meets_expectations' = ok
           /\ count_success' = IF ok THEN count_success + 1 ELSE count_success
    /\ trial' = trial + 1
    /\ pc' = "loop"
    /\ UNCHANGED <<kwargs, raised, heap, expected_balls, num_balls_drawn,
                   num_experiments, hat_copy, drawn_balls, outcome, probability, pre_contents,
                   last_draw, prev_draw>>
    /\ UNCHANGED <<budget_vars, square_vars>>

\* probability = count_success / num_experiments
ComputeProbability ==
    /\ pc = "loop"
    /\ trial >= num_experiments
    /\ IF num_experiments = 0
       THEN /\ outcome' = "ZeroDivisionError"
            /\ probability' = NoValue
       ELSE /\ outcome' = "returned"
            /\ probability' = Divide(count_success, num_experiments)
    /\ pc' = "done"
    /\ UNCHANGED <<kwargs, raised, heap, expected_balls, num_balls_drawn, num_experiments, trial,
                   count_success, hat_copy, drawn_balls, meets_expectations,
                   pre_contents, last_draw, prev_draw>>
    /\ UNCHANGED <<budget_vars, square_vars>>

\* return probability (or the exception leaves the function): the frame and
\* the last working copy are gone, the caller holds the outcome
Return ==
    /\ pc = "done"
    /\ pc' = "idle"
    /\ heap' = [heap EXCEPT ![CopyRef] = NoObj]
    /\ NoFrame
    /\ UNCHANGED <<kwargs, raised, outcome, probability, last_draw, prev_draw>>
    /\ UNCHANGED <<budget_vars, square_vars>>

\* a call of experiment() with any arguments; the guard of ExperimentCall is
\* tested once, before the arguments are enumerated
Experiment ==
    /\ pc = "idle"
    /\ \E expected \in DictsOver(Needs), k \in DrawSizes, n \in TrialCounts :
           ExperimentCall(expected, k, n)

\* the estimator: calls of experiment() on a hat the client may have drawn from
Next ==
    \/ \E num_balls \in DrawSizes : DrawBefore(num_balls)
    \/ Experiment
    \/ TrialCopy
    \/ TrialDraw
    \/ TrialScore
    \/ ComputeProbability
    \/ Return

Spec == Init /\ [][Next]_vars

\* the hat alone: any sequence of draw() calls on one Hat
NextHat == \E num_balls \in DrawSizes : Draw(num_balls)

SpecHat == InitHat /\ [][NextHat]_vars

\* ------------------------------------------------- Category actions
\* category.deposit(amount)
DepositCall(c, amount) ==
    /\ TotalEntries < MaxEntries
    /\ ledger' = [ledger EXCEPT ![c] = Deposit(@, amount, NoDescription)]
    /\ budget_op' = [name |-> "deposit", cat |-> c, other |-> "none",
                     amount |-> amount, pre |-> ledger, ret |-> "None"]
    /\ nonneg' = (nonneg /\ amount >= 0)
    /\ UNCHANGED <<hat_vars, square_vars>>

\* category.withdraw(amount)
WithdrawCall(c, amount) ==
    /\ TotalEntries < MaxEntries
    /\ LET w == Withdraw(ledger[c], amount, NoDescription)
       IN  /\ ledger' = [ledger EXCEPT ![c] = w[1]]
           /\ budget_op' = [name |-> "withdraw", cat |-> c, other |-> "none",
                            amount |-> amount, pre |-> ledger, ret |-> w[2]]
    /\ nonneg' = (nonneg /\ amount >= 0)
    /\ UNCHANGED <<hat_vars, square_vars>>

\* category.transfer(amount, other)
TransferCall(c, other, amount) ==
    /\ TotalEntries < MaxEntries
    /\ LET t == Transfer(ledger, c, other, amount)
       IN  /\ ledger' = t[1]
           /\ budget_op' = [name |-> "transfer", cat |-> c, other |-> other,
                            amount |-> amount, pre |-> ledger, ret |-> t[2]]
    /\ nonneg' = (nonneg /\ amount >= 0)
    /\ UNCHANGED <<hat_vars, square_vars>>

NextBudget ==
    \/ \E c \in Categories, amount \in Amounts : DepositCall(c, amount)
    \/ \E c \in Categories, amount \in Amounts : WithdrawCall(c, amount)
    \/ \E c \in Categories, other \in Categories, amount \in Amounts :
           TransferCall(c, other, amount)

SpecBudget == InitBudget /\ [][NextBudget]_vars

\* --------------------------------------------------- Square actions
SetSideCall(side) ==
    /\ square' = SetSide(square, side)
    /\ square_op' = [name |-> "set_side", value |-> side]
    /\ UNCHANGED <<hat_vars, budget_vars>>

SetWidthCall(width) ==
    /\ square' = SetWidth(square, width)
    /\ square_op' = [name |-> "set_width", value |-> width]
    /\ UNCHANGED <<hat_vars, budget_vars>>

SetHeightCall(height) ==
    /\ square' = SetHeight(square, height)
    /\ square_op' = [name |-> "set_height", value |-> height]
    /\ UNCHANGED <<hat_vars, budget_vars>>

NextSquare ==
    \/ \E side \in Sides : SetSideCall(side)
    \/ \E width \in Sides : SetWidthCall(width)
    \/ \E height \in Sides : SetHeightCall(height)

SpecSquare == InitSquare /\ [][NextSquare]_vars

\* ---------------------------------------------------------------- claims
\* experiment() has computed its result from valid arguments
Finished ==
    /\ pc = "done"
    /\ outcome = "returned"
    /\ num_experiments >= 1
    /\ num_balls_drawn >= 0

\* C1: when experiment() returns (draw size >= 0, trial count >= 1), the
\* caller's hat holds the same items in the same order as when it was called.
TrialIsolation == Finished => heap[HatRef].contents = pre_contents

TrialIsolationWitness ==
    /\ Finished
    /\ num_experiments = 2
    /\ Len(pre_contents) >= 2
    /\ num_balls_drawn = 1
    /\ Len(drawn_balls) = 1
    /\ Len(heap[CopyRef].contents) = Len(pre_contents) - 1
    /\ heap[HatRef].contents = pre_contents

\* C2: every trial's working copy starts with the construction-time contents
\* of the caller's hat, even when the caller drew from the hat beforehand.
FreshFromSnapshot ==
    pc = "copied" => heap[hat_copy].contents = heap[HatRef].original_contents

\* C3: draw(k), k >= 0, followed by draw(remaining size) return between them
\* exactly the items the hat held before the first draw, colour by colour.
Conservation ==
    (/\ prev_draw.valid
     /\ last_draw.valid
     /\ prev_draw.k >= 0
     /\ last_draw.k = Len(last_draw.pre))
    => /\ \A c \in Colors :
             CountIn(prev_draw.result \o last_draw.result, c) = CountIn(prev_draw.pre, c)
       /\ Len(prev_draw.result) + Len(last_draw.result) = Len(prev_draw.pre)

ConservationWitness ==
    /\ prev_draw.valid
    /\ last_draw.valid
    /\ prev_draw.k = 2
    /\ Len(prev_draw.pre) = 4
    /\ prev_draw.result = <<"b", "a">>
    /\ last_draw.k = Len(last_draw.pre)
    /\ last_draw.result = <<"a", "b">>

\* C4: draw(k) with k >= current size n (n = 0 included) returns all n items
\* and leaves the hat empty.
OverDrawSaturation ==
    (last_draw.valid /\ last_draw.k >= Len(last_draw.pre))
    => /\ \A c \in Colors : CountIn(last_draw.result, c) = CountIn(last_draw.pre, c)
       /\ Len(last_draw.result) = Len(last_draw.pre)
       /\ last_draw.post = <<>>
       /\ heap[HatRef].contents = <<>>

OverDrawSaturationWitness ==
    /\ last_draw.valid
    /\ Len(last_draw.pre) = 3
    /\ last_draw.k = 5
    /\ Len(last_draw.result) = 3
    /\ heap[HatRef].contents = <<>>

\* C5: with trial count >= 1 and draw size >= 0 the success counter stays
\* within 0..trials during the whole run, grows by at most 1 per trial, and
\* the returned quotient lies in [0, 1].
SuccessCounterBounds ==
    /\ []((pc # "idle" /\ num_experiments >= 1 /\ num_balls_drawn >= 0)
            => /\ 0 <= count_success
               /\ count_success <= trial
               /\ trial <= num_experiments)
    /\ [](Finished
            => /\ probability[2] > 0
               /\ 0 <= probability[1]
               /\ probability[1] <= probability[2])
    /\ [][(pc # "idle" /\ pc' # "idle" /\ count_success' # count_success)
            => (count_success' = count_success + 1 /\ trial' = trial + 1)]_vars

SuccessCounterBoundsWitness ==
    /\ Finished
    /\ num_experiments = 2
    /\ count_success = 1
    /\ probability = <<1, 2>>

\* C6: experiment() returns 1.0 when the draw size is at least the size of
\* the hat and no colour is required more often than the hat holds it.
CertainWhenCovered ==
    (/\ Finished
     /\ num_balls_drawn >= Len(pre_contents)
     /\ \A idx \in DOMAIN expected_balls :
            expected_balls[idx][2] <= CountIn(pre_contents, expected_balls[idx][1]))
    => probability = One

CertainWhenCoveredWitness ==
    /\ Finished
    /\ num_experiments = 2
    /\ pre_contents = <<"a", "a", "b">>
    /\ num_balls_drawn = 3
    /\ expected_balls = <<<<"a", 2>>, <<"b", 1>>>>
    /\ probability = One

\* C7: experiment() returns 0.0 when some colour is required more often than
\* the whole hat holds it (a colour the hat lacks included).
ImpossibleIsZero ==
    (/\ Finished
     /\ \E idx \in DOMAIN expected_balls :
            expected_balls[idx][2] > CountIn(pre_contents, expected_balls[idx][1]))
    => probability = Zero

ImpossibleIsZeroWitness ==
    /\ Finished
    /\ num_experiments = 2
    /\ pre_contents = <<"a", "a">>
    /\ num_balls_drawn = 1
    /\ expected_balls = <<<<"a", 1>>, <<"b", 1>>>>
    /\ probability = Zero

\* C8 as stated: with draw size 0, every non-empty criterion with
\* non-negative amounts (an amount of 0 included) gives probability 0.0.
ZeroDrawAnyCriterion ==
    (Finished /\ num_balls_drawn = 0 /\ Len(expected_balls) >= 1)
    => probability = Zero

\* C8 amended: with draw size 0, every criterion that requires a positive
\* amount of at least one colour gives probability 0.0.
ZeroDrawPositiveCriterion ==
    (/\ Finished
     /\ num_balls_drawn = 0
     /\ \E idx \in DOMAIN expected_balls : expected_balls[idx][2] > 0)
    => probability = Zero

ZeroDrawPositiveCriterionWitness ==
    /\ Finished
    /\ num_experiments = 2
    /\ num_balls_drawn = 0
    /\ Len(pre_contents) = 4
    /\ expected_balls = <<<<"a", 1>>, <<"b", 0>>>>
    /\ drawn_balls = <<>>
    /\ probability = Zero

\* C9: with expected_balls = {} every trial is a success and the result is
\* 1.0, for every hat, draw size >= 0 and trial count >= 1.
EmptyCriterion ==
    /\ (pc # "idle" /\ num_experiments >= 1 /\ num_balls_drawn >= 0
          /\ expected_balls = <<>>) => count_success = trial
    /\ (Finished /\ expected_balls = <<>>) => probability = One

EmptyCriterionWitness ==
    /\ Finished
    /\ expected_balls = <<>>
    /\ pre_contents = <<>>
    /\ num_experiments = 2
    /\ count_success = 2
    /\ probability = One

\* C10: a trial is counted as a success exactly when every colour of
\* expected_balls was drawn at least as often as required; colours outside
\* expected_balls and the break on the first unmet colour change nothing.
ScoringRule ==
    [][(pc = "drawn" /\ pc' = "loop")
         => LET met == \A idx \in DOMAIN expected_balls :
                          CountIn(drawn_balls, expected_balls[idx][1])
                              >= expected_balls[idx][2]
            IN  /\ meets_expectations' = met
                /\ count_success' = IF met THEN count_success + 1 ELSE count_success]_vars

ScoringRuleWitness ==
    /\ pc = "loop"
    /\ trial = 2
    /\ expected_balls = <<<<"a", 2>>, <<"b", 1>>>>
    /\ drawn_balls = <<"b", "a", "b">>
    /\ meets_expectations = FALSE
    /\ count_success = 1

\* C11: Hat(...) with a quantity below zero is rejected with InvalidCount and
\* no Hat object comes into being.
NegativeCountRejected ==
    (\E idx \in DOMAIN kwargs : kwargs[idx][2] < 0)
    => (raised = "InvalidCount" /\ heap[HatRef] = NoObj)

\* C12: draw(k) with k < 0 ends in InvalidArgument instead of returning a
\* list, and leaves the contents as they were.
NegativeDrawRejected ==
    (last_draw.valid /\ last_draw.k < 0)
    => (raised = "InvalidArgument" /\ last_draw.post = last_draw.pre)

\* C13: experiment() with trial count 0 or a draw size below zero is rejected
\* with InvalidArgument before any trial: no copy, no draw, no probability.
InvalidArgumentsRejected ==
    (pc # "idle" /\ (num_experiments = 0 \/ num_balls_drawn < 0))
    => /\ pc \notin {"copied", "drawn"}
       /\ hat_copy = 0
       /\ trial = 0
       /\ pc = "done" => (outcome = "InvalidArgument" /\ probability = NoValue)

\* C14: the hat never holds more items than its construction-time snapshot,
\* and a draw(k), k >= 0, leaves of every colour at most what there was.
PoolSizeInvariant ==
    /\ Len(heap[HatRef].contents) <= Len(heap[HatRef].original_contents)
    /\ (last_draw.valid /\ last_draw.k >= 0)
         => /\ heap[HatRef].contents = last_draw.post
            /\ Len(last_draw.post) <= Len(last_draw.pre)
            /\ \A c \in Colors :
                   CountIn(last_draw.post, c) <= CountIn(last_draw.pre, c)

PoolSizeInvariantWitness ==
    /\ prev_draw.valid
    /\ last_draw.valid
    /\ prev_draw.k = 1
    /\ last_draw.k = 2
    /\ Len(heap[HatRef].original_contents) = 4
    /\ Len(heap[HatRef].contents) = 1

\* C16: draw(k) with 0 <= k < n returns k labels, leaves n - k items, and for
\* every colour the result holds at most what the hat held and result plus
\* remainder hold exactly that.
DrawWithoutReplacement ==
    (last_draw.valid /\ 0 <= last_draw.k /\ last_draw.k < Len(last_draw.pre))
    => /\ Len(last_draw.result) = last_draw.k
       /\ Len(last_draw.post) = Len(last_draw.pre) - last_draw.k
       /\ \A c \in Colors :
             /\ CountIn(last_draw.result, c) <= CountIn(last_draw.pre, c)
             /\ CountIn(last_draw.result, c) + CountIn(last_draw.post, c)
                    = CountIn(last_draw.pre, c)

DrawWithoutReplacementWitness ==
    /\ last_draw.valid
    /\ last_draw.pre = <<"a", "a", "b", "b">>
    /\ last_draw.k = 3
    /\ last_draw.result = <<"b", "a", "b">>
    /\ last_draw.post = <<"a">>

\* C17: original_contents always is the expansion of the construction
\* mapping (kwargs[1][2] times "a", then kwargs[2][2] times "b"), whatever
\* draw() and experiment() calls happened, and no step changes it.
SnapshotImmutable ==
    /\ [](heap[HatRef].original_contents =
             [i \in 1..(kwargs[1][2] + kwargs[2][2]) |->
                  IF i <= kwargs[1][2] THEN "a" ELSE "b"])
    /\ [][heap'[HatRef].original_contents = heap[HatRef].original_contents]_vars

SnapshotImmutableWitness ==
    /\ pc = "done"
    /\ outcome = "returned"
    /\ num_balls_drawn = 1
    /\ heap[HatRef].contents = <<>>
    /\ heap[HatRef].original_contents = <<"a", "a", "b">>
    /\ heap[CopyRef].original_contents = <<"a", "a", "b">>

\* C15: withdraw(amount) with amount above the balance returns False and
\* changes no ledger; otherwise it appends one entry of -amount and returns
\* True; as long as no negative amount was passed, no balance is below 0.
WithdrawGuard ==
    /\ budget_op.name = "withdraw"
         => LET before == budget_op.pre[budget_op.cat]
            IN  IF budget_op.amount > GetBalance(before)
                THEN budget_op.ret = "False" /\ ledger = budget_op.pre
                ELSE /\ budget_op.ret = "True"
                     /\ Len(ledger[budget_op.cat]) = Len(before) + 1
                     /\ SubSeq(ledger[budget_op.cat], 1, Len(before)) = before
                     /\ ledger[budget_op.cat][Len(before) + 1].amount
                            = 0 - budget_op.amount
                     /\ \A c \in Categories \ {budget_op.cat} :
                            ledger[c] = budget_op.pre[c]
    /\ nonneg => \A c \in Categories : GetBalance(ledger[c]) >= 0

WithdrawGuardWitness ==
    /\ nonneg
    /\ budget_op.name = "withdraw"
    /\ budget_op.cat = "Food"
    /\ budget_op.amount = 2
    /\ budget_op.ret = "True"
    /\ Len(ledger["Food"]) = 3
    /\ GetBalance(ledger["Food"]) = 0

\* C18: transfer(amount, other) between two categories with sufficient funds
\* appends one entry of -amount to the source and one of +amount to the
\* destination and returns True, the sum of the balances staying the same;
\* with insufficient funds it returns False and changes no ledger.
TransferAllOrNothing ==
    budget_op.name = "transfer"
    => LET src == budget_op.cat
           dst == budget_op.other
           before == budget_op.pre
       IN  IF budget_op.amount <= GetBalance(before[src])
           THEN /\ budget_op.ret = "True"
                /\ GetBalance(ledger["Food"]) + GetBalance(ledger["Misc"])
                       = GetBalance(before["Food"]) + GetBalance(before["Misc"])
                /\ src # dst
                     => /\ Len(ledger[src]) = Len(before[src]) + 1
                        /\ SubSeq(ledger[src], 1, Len(before[src])) = before[src]
                        /\ ledger[src][Len(ledger[src])].amount = 0 - budget_op.amount
                        /\ Len(ledger[dst]) = Len(before[dst]) + 1
                        /\ SubSeq(ledger[dst], 1, Len(before[dst])) = before[dst]
                        /\ ledger[dst][Len(ledger[dst])].amount = budget_op.amount
           ELSE budget_op.ret = "False" /\ ledger = before

TransferAllOrNothingWitness ==
    /\ budget_op.name = "transfer"
    /\ budget_op.cat = "Food"
    /\ budget_op.other = "Misc"
    /\ budget_op.amount = 1
    /\ budget_op.ret = "True"
    /\ GetBalance(budget_op.pre["Food"]) = 2
    /\ GetBalance(ledger["Food"]) = 1
    /\ GetBalance(ledger["Misc"]) = 1

\* C19: after Square(side) and after every set_side, set_width or set_height,
\* width, height and side all equal the value set last.
SquareInvariant ==
    /\ square.width = square_op.value
    /\ square.height = square_op.value
    /\ square.side = square_op.value

SquareInvariantWitness ==
    /\ square_op = [name |-> "set_width", value |-> 7]
    /\ square.height = 7
    /\ square.side = 7

====
